---- MODULE Spec2Model ----
(***************************************************************************)
(* Model of app_retiros.py: the batch engine procesar_retiros_streamlit    *)
(* with validar_estructura, generar_xml_oca_retiros and the reply          *)
(* interpretation it performs per remito (Spec), and the runs of main()   *)
(* around it with the Streamlit session state (SpecMain).                  *)
(*                                                                         *)
(* Texts are sequences of one-character strings, so that strip, upper and  *)
(* the digit filter are computed as the code computes them.  A cell of a   *)
(* numeric column is the text pandas parses, described by what to_numeric  *)
(* sees in it.  The columns telefono and Referencia are only checked for   *)
(* presence: no later step of the engine reads their cells.                *)
(***************************************************************************)
EXTENDS Integers, Sequences, FiniteSets, TLC

\* ------------------------------------------------------------- bounds
\* Longest uploaded table, in rows.
MaxFilas == 3

\* Longest table uploaded in the runs of main().
MaxFilasSesion == 2

\* An optional value: Python's None / pandas' NaN, or a value.
Nada == [hay |-> FALSE, v |-> <<>>]
Algun(x) == [hay |-> TRUE, v |-> x]

\* ------------------------------------------------------------- texts
Digitos == <<"0", "1", "2", "3", "4", "5", "6", "7", "8", "9">>

\* str.isdigit on one character.
EsDigito(c) == \E i \in 1..10 : Digitos[i] = c

\* ''.join(filter(str.isdigit, s))
SoloDigitos(s) == SelectSeq(s, EsDigito)

EsEspacio(c) == c = " "

RECURSIVE QuitarIzq(_)
QuitarIzq(s) ==
    IF s = <<>> THEN <<>>
    ELSE IF EsEspacio(Head(s)) THEN QuitarIzq(Tail(s)) ELSE s

RECURSIVE QuitarDer(_)
QuitarDer(s) ==
    IF s = <<>> THEN <<>>
    ELSE IF EsEspacio(s[Len(s)]) THEN QuitarDer(SubSeq(s, 1, Len(s) - 1)) ELSE s

\* str.strip()
Strip(s) == QuitarDer(QuitarIzq(s))

\* str.upper() on one character of the alphabet the sample texts use.
MayusculaDe(c) ==
    CASE c = "a" -> "A"
      [] c = "b" -> "B"
      [] c = "j" -> "J"
      [] c = "p" -> "P"
      [] c = "v" -> "V"
      [] OTHER -> c

Upper(s) == [i \in 1..Len(s) |-> MayusculaDe(s[i])]

\* convertir_mayusculas on a str value.
convertir_mayusculas(valor) == Upper(Strip(valor))

\* ',' in s
ContieneComa(s) == \E i \in 1..Len(s) : s[i] = ","

RECURSIVE NatStr(_)
NatStr(n) ==
    IF n < 10 THEN <<Digitos[n + 1]>>
    ELSE NatStr(n \div 10) \o <<Digitos[(n % 10) + 1]>>

\* str(n) for an int.
Str(n) == IF n < 0 THEN <<"-">> \o NatStr(-n) ELSE NatStr(n)

\* ------------------------------------------------------- numeric cells
\* A numeric cell as read from the sheet: a number text (sign, integer part,
\* whether a fractional part follows), a text that is no number, nothing, or
\* a text that parses to an infinite float ('inf', '-Infinity', '1e999').
Num(neg, ent, frac) == [k |-> "num", neg |-> neg, ent |-> ent, frac |-> frac]
NoNumero == [k |-> "txt", neg |-> FALSE, ent |-> 0, frac |-> FALSE]
Falta == [k |-> "nan", neg |-> FALSE, ent |-> 0, frac |-> FALSE]
NoFinito(neg) == [k |-> "inf", neg |-> neg, ent |-> 0, frac |-> FALSE]

\* pd.to_numeric(errors='coerce').fillna(0).astype('int64') on one cell of a
\* column that converts: what does not parse becomes NaN and then 0; a
\* fraction is cut towards zero. An infinite value is no NaN, fillna keeps
\* it, and astype raises for the whole column (NoConvierte below).
ANumero(c) ==
    CASE c.k = "num" -> (IF c.neg THEN 0 - c.ent ELSE c.ent)
      [] c.k \in {"txt", "nan"} -> 0

\* ---------------------------------------------------------- the input
ColumnasRequeridas ==
    <<"obs", "Nombre", "Direccion", "Numero", "localidad", "provincia",
      "cp", "telefono", "mail", "Referencia", "cantidad">>

Fila(obs, nombre, dir, numero, loc, prov, cp, mail, cant) ==
    [obs |-> obs, Nombre |-> nombre, Direccion |-> dir, Numero |-> numero,
     localidad |-> loc, provincia |-> prov, cp |-> cp, mail |-> mail,
     cantidad |-> cant]

\* The rows an uploaded sheet is made of.
FilasMuestra ==
    { Fila(Num(FALSE, 500, FALSE), <<"p", ",", " ", "j">>, <<" ", "a", "v">>,
           Num(FALSE, 12, FALSE), <<"a">>, <<"b", "a">>,
           Num(FALSE, 1625, FALSE), <<"a", "@", "b", " ">>, Num(FALSE, 1, FALSE)),
      Fila(Num(FALSE, 500, FALSE), <<"B", ",", "A">>, <<"b", " ", "b">>,
           Num(FALSE, 7, TRUE), <<"b">>, <<"a", "b">>,
           Num(FALSE, 1000, FALSE), <<"b", "@", "a">>, Num(TRUE, 2, FALSE)),
      Fila(Num(FALSE, 77, TRUE), <<"A", ",", "B">>, <<"v", "a">>,
           NoNumero, <<"v">>, <<"p">>,
           Num(FALSE, 3100, FALSE), <<"v", "@", "a">>, Falta),
      Fila(NoNumero, <<"J", ",", "P">>, <<"P", "J">>,
           Num(TRUE, 3, TRUE), <<"j">>, <<"j", "p">>,
           Falta, <<"j", "@", "p">>, Num(FALSE, 1, FALSE)),
      Fila(Num(FALSE, 77, FALSE), <<"j", " ", "p">>, <<"a">>,
           Num(FALSE, 1, FALSE), <<"a">>, <<"a">>,
           Num(FALSE, 1625, FALSE), <<"a", "@", "a">>, Num(FALSE, 1, FALSE)),
      Fila(Num(FALSE, 500, FALSE), <<"j", " ", "p">>, <<"a">>,
           Num(FALSE, 1, FALSE), <<"a">>, <<"a">>,
           NoFinito(FALSE), <<"a", "@", "a">>, Num(FALSE, 1, FALSE)),
      Fila(Num(FALSE, 77, FALSE), <<"p", ",", " ", "j">>, <<"a">>,
           NoFinito(TRUE), <<"a">>, <<"a">>,
           Num(FALSE, 1625, FALSE), <<"a", "@", "a">>, Num(FALSE, 1, FALSE)) }

Tablas == UNION { [1..n -> FilasMuestra] : n \in 0..MaxFilas }

\* The column sets an uploaded sheet may have: complete, or one column short.
Quitar(cols, c) == SelectSeq(cols, LAMBDA x : x # c)
JuegosDeColumnas ==
    { ColumnasRequeridas, Quitar(ColumnasRequeridas, "obs"),
      Quitar(ColumnasRequeridas, "cantidad") }

\* ------------------------------------------------- normalisation (238-239)
\* df['obs'].str.strip().str.upper() and df.map(convertir_mayusculas(str(x))):
\* every text cell is stripped and upper-cased; a number text parses the same.
NormalizarFila(f) ==
    [f EXCEPT !.Nombre = convertir_mayusculas(@),
              !.Direccion = convertir_mayusculas(@),
              !.localidad = convertir_mayusculas(@),
              !.provincia = convertir_mayusculas(@),
              !.mail = convertir_mayusculas(@)]

Normalizar(filas) == [i \in 1..Len(filas) |-> NormalizarFila(filas[i])]

\* ------------------------------------------------------ validar_estructura
\* missing = [col for col in required_columns if col not in df.columns]
Faltantes(cols) ==
    SelectSeq(ColumnasRequeridas, LAMBDA c : \A i \in 1..Len(cols) : cols[i] # c)

\* The numeric columns, in the order required_columns.items() visits them.
ColumnasAEntero == <<"obs", "Numero", "cp", "cantidad">>

\* The numeric columns whose astype('int64') raises (96-97): those holding an
\* infinite value in some row; 110-111 re-raise for the first one visited.
NoConvierte(filas) ==
    SelectSeq(ColumnasAEntero,
              LAMBDA c : \E i \in 1..Len(filas) : filas[i][c].k = "inf")

\* The numeric columns after to_numeric / fillna(0) / astype('int64').
CoercionarFila(f) ==
    [f EXCEPT !.obs = ANumero(@), !.Numero = ANumero(@),
              !.cp = ANumero(@), !.cantidad = ANumero(@)]

Coercionar(filas) == [i \in 1..Len(filas) |-> CoercionarFila(filas[i])]

\* df[~df['Nombre'].str.contains(',')].index, as the sheet lines i + 2 of the
\* 0-based index i (here the 1-based position plus 1).
NombresInvalidosMut(filas) == <<>>
NombresInvalidos(filas) ==
    LET malos == SelectSeq([i \in 1..Len(filas) |-> i],
                           LAMBDA i : ~ContieneComa(filas[i].Nombre))
    IN  [k \in 1..Len(malos) |-> malos[k] + 1]

\* validar_estructura(df): the ValueError it raises, or the table it leaves.
validar_estructura(cols, filas) ==
    IF Faltantes(cols) # <<>>
    THEN [ok |-> FALSE,
          error |-> [clase |-> "Faltan columnas requeridas",
                     detalle |-> Faltantes(cols)],
          df |-> <<>>]
    ELSE IF NoConvierte(filas) # <<>>
    THEN [ok |-> FALSE,
          error |-> [clase |-> "Error validando",
                     detalle |-> <<Head(NoConvierte(filas))>>],
          df |-> <<>>]
    ELSE IF NombresInvalidos(filas) # <<>>
    THEN [ok |-> FALSE,
          error |-> [clase |-> "Nombre invalido en filas",
                     detalle |-> NombresInvalidos(filas)],
          df |-> <<>>]
    ELSE [ok |-> TRUE,
          error |-> [clase |-> "", detalle |-> <<>>],
          df |-> Coercionar(filas)]

\* ----------------------------------------------------------- df.groupby
SetMin(S) == CHOOSE x \in S : \A y \in S : x <= y

RECURSIVE Ascendente(_)
Ascendente(S) ==
    IF S = {} THEN <<>> ELSE <<SetMin(S)>> \o Ascendente(S \ {SetMin(S)})

RECURSIVE PrimeraAparicion(_)
PrimeraAparicion(s) ==
    IF s = <<>> THEN <<>>
    ELSE <<Head(s)>> \o PrimeraAparicion(SelectSeq(Tail(s), LAMBDA x : x # Head(s)))

ObsDe(df) == [i \in 1..Len(df) |-> df[i].obs]
Rango(s) == {s[i] : i \in 1..Len(s)}

\* The keys of df.groupby('obs') in iteration order: groupby sorts its keys.
ClavesMut(df) == PrimeraAparicion(ObsDe(df))
Claves(df) == Ascendente(Rango(ObsDe(df)))

\* The group of one key: its rows, in table order.
Grupo(df, remito) == SelectSeq(df, LAMBDA f : f.obs = remito)

\* ------------------------------------------------------------ OCA_CONFIG
\* The configuration get_oca_config returns when the credentials are set.
ConfigOCA ==
    [usr |-> "usr", psw |-> "psw",
     origen |-> [nombre |-> "CIC", apellido |-> "Logistica",
                 calle |-> "Septiembre", nro |-> "151", cp |-> "1625",
                 localidad |-> "Escobar", provincia |-> "BUENOS AIRES",
                 email |-> "pedidosargentina@fuxion.net",
                 idfranjahoraria |-> "1", centrocosto |-> "0",
                 nrocuenta |-> "191952/000"]]

\* The facility ids obtener_centro_imposicion may return: "0" on any failure
\* or empty answer, otherwise the id the service names.
Centros == {<<"0">>, <<"5", "5">>}

\* --------------------------------------------------- generar_xml_oca_retiros
\* fila = grupo.iloc[0]
PrimeraFilaMut(grupo) == grupo[Len(grupo)]
PrimeraFila(grupo) == grupo[1]

OrigenAttrs(fila, centro) ==
    [calle |-> convertir_mayusculas(fila.Direccion),
     nro |-> Str(fila.Numero),
     cp |-> Str(fila.cp),
     localidad |-> convertir_mayusculas(fila.localidad),
     provincia |-> convertir_mayusculas(fila.provincia),
     email |-> Strip(fila.mail),
     idfranjahoraria |-> ConfigOCA.origen.idfranjahoraria,
     centrocosto |-> ConfigOCA.origen.centrocosto,
     idcentroimposicionorigen |-> centro,
     fecha |-> "%Y%m%d",
     piso |-> "", depto |-> "", contacto |-> "", solicitante |-> "",
     observaciones |-> ""]

\* The destination is the organisation's own address: the configured values,
\* upper-cased where the code upper-cases them.
DestinatarioAttrs ==
    [apellido |-> "LOGISTICA", nombre |-> "CIC", calle |-> "SEPTIEMBRE",
     nro |-> ConfigOCA.origen.nro, localidad |-> "ESCOBAR",
     provincia |-> "BUENOS AIRES", cp |-> ConfigOCA.origen.cp,
     telefono |-> "", email |-> ConfigOCA.origen.email,
     observaciones |-> "", piso |-> "", depto |-> "", idci |-> "0",
     celular |-> ""]

PaqueteAttrs ==
    [alto |-> "30.00", ancho |-> "25.00", largo |-> "20.00",
     peso |-> "0.20", valor |-> "0.00", cant |-> "1"]

\* One <origen> with its <envios>/<envio>, <destinatario> and <paquetes>.
Origen(remito, grupo, centro) ==
    [attrs |-> OrigenAttrs(PrimeraFila(grupo), centro),
     envios |-> << [idoperativa |-> "441846",
                    nroremito |-> Str(remito),
                    destinatarios |-> <<DestinatarioAttrs>>,
                    paquetes |-> <<PaqueteAttrs>>] >>]

\* The document: <ROWS><cabecera/><origenes> one <origen> per key of
\* df.groupby("obs") </origenes></ROWS>.  centro is what the postal lookup
\* answers for the call.
generar_xml_oca_retiros(df, centro) ==
    [cabecera |-> [ver |-> "2.0", nrocuenta |-> ConfigOCA.origen.nrocuenta],
     origenes |-> [k \in 1..Len(Claves(df)) |->
                      Origen(Claves(df)[k], Grupo(df, Claves(df)[k]), centro)]]

\* The postal codes the lookups of one generar_xml_oca_retiros call ask for.
ConsultasDe(df) ==
    [k \in 1..Len(Claves(df)) |-> Str(PrimeraFila(Grupo(df, Claves(df)[k])).cp)]

\* ------------------------------------------------------------ the replies
\* What requests.post and the carrier can answer to one submission:
\* transporte is "ok", "timeout" (requests raises) or "http" (raise_for_status
\* raises); xml_ok is whether ET.fromstring parses the body; errores are the
\* texts of Errores/Error/Descripcion, as words; detalles are the
\* DetalleIngresos records with their NumeroEnvio and OrdenRetiro texts (Nada:
\* the element is absent).
Respuesta(t, x, e, d) == [transporte |-> t, xml_ok |-> x, errores |-> e, detalles |-> d]
Detalle(n, o) == [NumeroEnvio |-> n, OrdenRetiro |-> o]

T_EV12345 == <<"E", "V", "1", "2", "3", "4", "5">>
T_OR777 == <<"O", "R", "7", "7", "7">>
T_EV00123A == <<" ", "E", "V", "-", "0", "0", "1", "2", "3", "A">>
T_EV9 == <<"E", "V", "9">>
T_ABC == <<"A", "B", "C">>
T_XYZ == <<"X", "Y", "Z">>

Respuestas ==
    { Respuesta("timeout", FALSE, <<>>, <<>>),
      Respuesta("http", FALSE, <<>>, <<>>),
      Respuesta("ok", FALSE, <<>>, <<>>),
      Respuesta("ok", TRUE, << <<"IdCodPostal", "invalido">> >>, <<>>),
      Respuesta("ok", TRUE, << <<"Cuenta", "inexistente">> >>,
                << Detalle(Algun(T_EV12345), Algun(T_OR777)) >>),
      Respuesta("ok", TRUE, <<>>, << Detalle(Algun(T_EV12345), Algun(T_OR777)) >>),
      Respuesta("ok", TRUE, <<>>,
                << Detalle(Algun(T_EV00123A), Algun(T_OR777)),
                   Detalle(Algun(T_EV9), Algun(T_XYZ)) >>),
      Respuesta("ok", TRUE, <<>>, << Detalle(Algun(T_ABC), Algun(T_XYZ)) >>),
      Respuesta("ok", TRUE, <<>>, <<>>),
      Respuesta("ok", TRUE, <<>>, << Detalle(Nada, Algun(T_OR777)) >>),
      Respuesta("ok", TRUE, <<>>, << Detalle(Algun(T_EV9), Nada) >>) }

\* ----------------------------------------------------- the unit's outcome
\* str(e) of the exception a unit fails with: its text and what it names.
ErrorDe(clase, remito, detalle, pista) ==
    [clase |-> clase, remito |-> remito, detalle |-> detalle, pista |-> pista]

\* resultados_por_remito[remito] of a unit that succeeded (316-321).
RegistroExito(nros_envio, orden_retiro) ==
    [nros_envio |-> nros_envio, orden_retiro |-> orden_retiro,
     tipo |-> "retiro", estado |-> "exito"]

\* resultados_por_remito[remito] of a unit that failed (325-328).
RegistroErrorMut(e) ==
    [error |-> e, estado |-> "error", nros_envio |-> <<>>]
RegistroError(e) == [error |-> e, estado |-> "error"]

\* "; ".join(e.text for e in errores)
RECURSIVE Unir(_)
Unir(descs) ==
    IF descs = <<>> THEN <<>>
    ELSE IF Len(descs) = 1 THEN descs[1]
    ELSE descs[1] \o <<"; ">> \o Unir(Tail(descs))

\* "IdCodPostal" in error_msg
ContieneIdCodPostal(msg) == \E i \in 1..Len(msg) : msg[i] = "IdCodPostal"

\* if errores:
HayErroresMut(resp) == resp.errores # <<>> /\ resp.detalles = <<>>
HayErrores(resp) == resp.errores # <<>>

\* The texts kept by the comprehension of 302-306: the records whose
\* NumeroEnvio text is truthy, each stripped and reduced to its digits.
NrosEnvio(detalles) ==
    LET con == SelectSeq(detalles,
                         LAMBDA d : d.NumeroEnvio.hay /\ d.NumeroEnvio.v # <<>>)
    IN  [i \in 1..Len(con) |-> SoloDigitos(Strip(con[i].NumeroEnvio.v))]

\* Lines 292-321 on a body that arrived: the record stored for the unit.
Interpretar(resp, remito, grupo) ==
    IF ~resp.xml_ok
    THEN RegistroError(ErrorDe("ParseError", Nada, <<>>, Nada))
    ELSE IF HayErrores(resp)
    THEN RegistroError(
             ErrorDe("Error de OCA para remito", Algun(Str(remito)), Unir(resp.errores),
                     IF ContieneIdCodPostal(Unir(resp.errores))
                     THEN Algun(Str(grupo[1].cp)) ELSE Nada))
    ELSE IF resp.detalles # <<>> /\ ~resp.detalles[1].OrdenRetiro.hay
    THEN RegistroError(ErrorDe("AttributeError", Nada, <<>>, Nada))
    ELSE IF NrosEnvio(resp.detalles) = <<>>
            \/ resp.detalles = <<>>
            \/ Strip(resp.detalles[1].OrdenRetiro.v) = <<>>
    THEN RegistroError(
             ErrorDe("No se encontraron numeros de envio o orden de retiro para remito",
                     Algun(Str(remito)), <<>>, Nada))
    ELSE RegistroExito(NrosEnvio(resp.detalles),
                       SoloDigitos(Strip(resp.detalles[1].OrdenRetiro.v)))

\* 'nros_envio' in resultado
EsExito(r) == "nros_envio" \in DOMAIN r

\* ------------------------------------------------------- the merge (333-339)
\* df['obs'] == remito
MascaraMut(filas, remito) == 1..Len(filas)
Mascara(filas, remito) == {i \in 1..Len(filas) : filas[i].obs = remito}

EstadoProcesado == [txt |-> "Procesado", e |-> ErrorDe("", Nada, <<>>, Nada)]
EstadoError(e) == [txt |-> "Error: ", e |-> e]

\* df.loc[mask, col] = value creates the column when the table lacks it.
ConColumna(cols, c) ==
    IF \E i \in 1..Len(cols) : cols[i] = c THEN cols ELSE Append(cols, c)

\* One iteration of the loop over resultados_por_remito.items().
Anotar(tabla, remito, resultado) ==
    IF EsExito(resultado)
    THEN [columnas |-> ConColumna(ConColumna(ConColumna(tabla.columnas,
                          "Nro Envio"), "Orden Retiro"), "Estado"),
          filas |-> [i \in 1..Len(tabla.filas) |->
                       IF i \in Mascara(tabla.filas, remito)
                       THEN [tabla.filas[i] EXCEPT
                                !.NroEnvio = Algun(resultado.nros_envio[1]),
                                !.OrdenRetiro = Algun(resultado.orden_retiro),
                                !.Estado = Algun(EstadoProcesado)]
                       ELSE tabla.filas[i]]]
    ELSE [columnas |-> ConColumna(tabla.columnas, "Estado"),
          filas |-> [i \in 1..Len(tabla.filas) |->
                       IF i \in Mascara(tabla.filas, remito)
                       THEN [tabla.filas[i] EXCEPT
                                !.Estado = Algun(EstadoError(resultado.error))]
                       ELSE tabla.filas[i]]]

\* The whole loop: the items in insertion order, which is processing order.
RECURSIVE ActualizarDataFrame(_, _, _)
ActualizarDataFrame(tabla, claves, resultados) ==
    IF claves = <<>> THEN tabla
    ELSE ActualizarDataFrame(Anotar(tabla, Head(claves), resultados[Head(claves)]),
                             Tail(claves), resultados)

\* 'exito': len(nros_envio_total) > 0
ExitoMut(nros) == Len(nros) > 1
Exito(nros) == Len(nros) > 0

\* The table as validar_estructura leaves it: the sheet's columns, and in each
\* row the cells of the three result columns not yet set.
TablaValidada(cols, filas) ==
    [columnas |-> cols,
     filas |-> [i \in 1..Len(filas) |->
                  [obs |-> filas[i].obs, Nombre |-> filas[i].Nombre,
                   Direccion |-> filas[i].Direccion, Numero |-> filas[i].Numero,
                   localidad |-> filas[i].localidad,
                   provincia |-> filas[i].provincia, cp |-> filas[i].cp,
                   mail |-> filas[i].mail, cantidad |-> filas[i].cantidad,
                   NroEnvio |-> Nada, OrdenRetiro |-> Nada, Estado |-> Nada]]]

\* ----------------------------------------------------------------- state
VARIABLES
    OCA_CONFIG,             \* TRUE: the configuration is loaded; FALSE: it is None
    archivo,                \* the uploaded sheet: its columns and rows
    pc,                     \* where procesar_retiros_streamlit stands
    df,                     \* the table, once read and validated
    grouped,                \* the keys of df.groupby('obs'), in iteration order
    current_remito,         \* units the loop has started
    xml_data,               \* the envelope of the last unit built
    response,               \* the body of the last reply received
    nros_envio_total,
    ordenes_retiro,
    resultados_por_remito,
    retorno,                \* the dict the function returns
    progreso,               \* the progress_bar.progress calls made
    consultas_cp,           \* the postal lookups made
    envios_post,            \* the submissions made, by the remito of the envelope
    procesamiento_completado,   \* st.session_state.procesamiento_completado
    resultados_procesamiento,   \* st.session_state.resultados_procesamiento
    archivo_procesado,          \* st.session_state.archivo_procesado
    archivo_subido,         \* TRUE: the file uploader holds a file
    evento                  \* what triggered the last run of the script

vars == <<OCA_CONFIG, archivo, pc, df, grouped, current_remito, xml_data, response,
          nros_envio_total, ordenes_retiro, resultados_por_remito, retorno,
          progreso, consultas_cp, envios_post, procesamiento_completado,
          resultados_procesamiento, archivo_procesado, archivo_subido, evento>>

\* The session and the widgets of main(), which the engine never touches.
sesion == <<procesamiento_completado, resultados_procesamiento,
            archivo_procesado, archivo_subido, evento>>

TablaVacia == [columnas |-> <<>>, filas |-> <<>>]

Init ==
    /\ OCA_CONFIG \in BOOLEAN
    /\ archivo \in [columnas : JuegosDeColumnas, filas : Tablas]
    /\ pc = "inicio"
    /\ df = TablaVacia
    /\ grouped = <<>>
    /\ current_remito = 0
    /\ xml_data = Nada
    /\ response = Nada
    /\ nros_envio_total = <<>>
    /\ ordenes_retiro = <<>>
    /\ resultados_por_remito = <<>>
    /\ retorno = Nada
    /\ progreso = <<>>
    /\ consultas_cp = <<>>
    /\ envios_post = <<>>
    /\ procesamiento_completado = FALSE
    /\ resultados_procesamiento = Nada
    /\ archivo_procesado = Nada
    /\ archivo_subido = TRUE
    /\ evento = "procesar"

Remito == grouped[current_remito]
GrupoActual == Grupo(df.filas, Remito)

\* 'obs' in df.columns
TieneObs(cols) == \E i \in 1..Len(cols) : cols[i] = "obs"

\* The top-level failure of 224-228 and 357-362.
FalloGeneral(e) == [exito |-> FALSE, error |-> e]

\* 224-228: no configuration.
SinConfiguracion ==
    /\ pc = "inicio"
    /\ ~OCA_CONFIG
    /\ retorno' = Algun(FalloGeneral(ErrorDe("Configuracion OCA no disponible",
                                             Nada, <<>>, Nada)))
    /\ pc' = "fin"
    /\ UNCHANGED sesion
    /\ UNCHANGED <<OCA_CONFIG, archivo, df, grouped, current_remito, xml_data,
                   response, nros_envio_total, ordenes_retiro,
                   resultados_por_remito, progreso, consultas_cp, envios_post>>

\* 238 raises KeyError when the sheet has no obs column; 242 raises the
\* ValueError of validar_estructura; 357-362 turn either into the failure.
ValidacionFalla ==
    /\ pc = "inicio"
    /\ OCA_CONFIG
    /\ LET v == validar_estructura(archivo.columnas, Normalizar(archivo.filas))
       IN  /\ ~TieneObs(archivo.columnas) \/ ~v.ok
           /\ retorno' = Algun(FalloGeneral(
                  IF ~TieneObs(archivo.columnas)
                  THEN [clase |-> "KeyError", detalle |-> <<"obs">>]
                  ELSE v.error))
    /\ pc' = "fin"
    /\ UNCHANGED sesion
    /\ UNCHANGED <<OCA_CONFIG, archivo, df, grouped, current_remito, xml_data,
                   response, nros_envio_total, ordenes_retiro,
                   resultados_por_remito, progreso, consultas_cp, envios_post>>

\* 232-259: the sheet is read, normalised, validated and grouped.
ValidacionPasa ==
    /\ pc = "inicio"
    /\ OCA_CONFIG
    /\ TieneObs(archivo.columnas)
    /\ LET v == validar_estructura(archivo.columnas, Normalizar(archivo.filas))
       IN  /\ v.ok
           /\ df' = TablaValidada(archivo.columnas, v.df)
           /\ grouped' = Claves(v.df)
    /\ pc' = "bucle"
    /\ UNCHANGED sesion
    /\ UNCHANGED <<OCA_CONFIG, archivo, current_remito, xml_data, response,
                   nros_envio_total, ordenes_retiro, resultados_por_remito,
                   retorno, progreso, consultas_cp, envios_post>>

\* The for loop after the except block of 323-328 has recorded a unit's
\* failure: the units started stay started and the next one follows.
TrasErrorMut(actual, total) == total
TrasError(actual, total) == actual

\* Where the function stands after a submission that failed: requests.post is
\* called once, its exception goes to the except block, the loop goes on.
TrasFalloDeEnvioMut == "enviar"
TrasFalloDeEnvio == "bucle"

\* 263-271, the envelope is built and written: progress is reported, the
\* postal lookup is made and answers centro, the document is serialised.
ConstruirSobre ==
    /\ pc = "bucle"
    /\ current_remito < Len(grouped)
    /\ current_remito' = current_remito + 1
    /\ LET remito == grouped[current_remito + 1]
           grupo == Grupo(df.filas, remito)
       IN  /\ progreso' = Append(progreso,
                 [remito |-> remito, actual |-> current_remito + 1,
                  total |-> Len(grouped)])
           /\ consultas_cp' = consultas_cp \o ConsultasDe(grupo)
           /\ \E centro \in Centros :
                 xml_data' = Algun(generar_xml_oca_retiros(grupo, centro))
    /\ pc' = "enviar"
    /\ UNCHANGED sesion
    /\ UNCHANGED <<OCA_CONFIG, archivo, df, grouped, response, nros_envio_total,
                   ordenes_retiro, resultados_por_remito, retorno, envios_post>>

\* 263-271 with open() or write() raising OSError after the document was
\* built: the except block records the unit's failure.
FalloAlConstruir ==
    /\ pc = "bucle"
    /\ current_remito < Len(grouped)
    /\ LET remito == grouped[current_remito + 1]
           grupo == Grupo(df.filas, remito)
       IN  /\ progreso' = Append(progreso,
                 [remito |-> remito, actual |-> current_remito + 1,
                  total |-> Len(grouped)])
           /\ consultas_cp' = consultas_cp \o ConsultasDe(grupo)
           /\ \E centro \in Centros :
                 xml_data' = Algun(generar_xml_oca_retiros(grupo, centro))
           /\ resultados_por_remito' =
                 resultados_por_remito @@
                     (remito :> RegistroError(ErrorDe("OSError", Nada, <<>>, Nada)))
    /\ current_remito' = TrasError(current_remito + 1, Len(grouped))
    /\ pc' = "bucle"
    /\ UNCHANGED sesion
    /\ UNCHANGED <<OCA_CONFIG, archivo, df, grouped, response, nros_envio_total,
                   ordenes_retiro, retorno, envios_post>>

\* The remitos the submitted document names.
RemitosDe(xml) ==
    [k \in 1..Len(xml.origenes) |-> xml.origenes[k].envios[1].nroremito]

\* 274-287 failing: requests.post times out or raise_for_status raises; the
\* except block records the unit's failure.
EnviarFalla ==
    /\ pc = "enviar"
    /\ \E resp \in Respuestas :
          /\ resp.transporte # "ok"
          /\ resultados_por_remito' =
                [k \in DOMAIN resultados_por_remito \cup {Remito} |->
                    IF k = Remito
                    THEN RegistroError(ErrorDe(resp.transporte, Nada, <<>>, Nada))
                    ELSE resultados_por_remito[k]]
    /\ envios_post' = envios_post \o RemitosDe(xml_data.v)
    /\ current_remito' = TrasError(current_remito, Len(grouped))
    /\ pc' = TrasFalloDeEnvio
    /\ UNCHANGED sesion
    /\ UNCHANGED <<OCA_CONFIG, archivo, df, grouped, xml_data, response,
                   nros_envio_total, ordenes_retiro, retorno, progreso,
                   consultas_cp>>

\* 274-289: the submission is answered with a body.
EnviarRecibe ==
    /\ pc = "enviar"
    /\ \E resp \in Respuestas :
          /\ resp.transporte = "ok"
          /\ response' = Algun(resp)
    /\ envios_post' = envios_post \o RemitosDe(xml_data.v)
    /\ pc' = "interpretar"
    /\ UNCHANGED sesion
    /\ UNCHANGED <<OCA_CONFIG, archivo, df, grouped, current_remito, xml_data,
                   nros_envio_total, ordenes_retiro, resultados_por_remito,
                   retorno, progreso, consultas_cp>>

\* 292-328: the body is interpreted and the unit's outcome recorded; a
\* success also extends the two batch lists.
InterpretarRespuesta ==
    /\ pc = "interpretar"
    /\ LET r == Interpretar(response.v, Remito, GrupoActual)
       IN  /\ resultados_por_remito' =
                 [k \in DOMAIN resultados_por_remito \cup {Remito} |->
                     IF k = Remito THEN r ELSE resultados_por_remito[k]]
           /\ IF EsExito(r)
              THEN /\ nros_envio_total' = nros_envio_total \o r.nros_envio
                   /\ ordenes_retiro' = Append(ordenes_retiro, r.orden_retiro)
                   /\ current_remito' = current_remito
              ELSE /\ UNCHANGED <<nros_envio_total, ordenes_retiro>>
                   /\ current_remito' = TrasError(current_remito, Len(grouped))
    /\ pc' = "bucle"
    /\ UNCHANGED sesion
    /\ UNCHANGED <<OCA_CONFIG, archivo, df, grouped, xml_data, response, retorno,
                   progreso, consultas_cp, envios_post>>

\* 330-355: the loop is over; the table is annotated and the result returned.
Fusionar ==
    /\ pc = "bucle"
    /\ current_remito >= Len(grouped)
    /\ LET claves == SelectSeq(grouped,
                               LAMBDA k : k \in DOMAIN resultados_por_remito)
           salida == ActualizarDataFrame(df, claves, resultados_por_remito)
       IN  /\ df' = salida
           /\ retorno' = Algun(
                 [exito |-> Exito(nros_envio_total),
                  nros_envio |-> nros_envio_total,
                  ordenes_retiro |-> ordenes_retiro,
                  resultados_por_remito |-> resultados_por_remito,
                  archivo_procesado |-> salida,
                  dataframe |-> salida,
                  nombre_archivo |-> "archivo.xlsx"])
    /\ pc' = "fin"
    /\ UNCHANGED sesion
    /\ UNCHANGED <<OCA_CONFIG, archivo, grouped, current_remito, xml_data,
                   response, nros_envio_total, ordenes_retiro,
                   resultados_por_remito, progreso, consultas_cp, envios_post>>

Next ==
    \/ SinConfiguracion
    \/ ValidacionFalla
    \/ ValidacionPasa
    \/ ConstruirSobre
    \/ FalloAlConstruir
    \/ EnviarFalla
    \/ EnviarRecibe
    \/ InterpretarRespuesta
    \/ Fusionar

Spec == Init /\ [][Next]_vars

\* ------------------------------------------------------------------ main()
\* One run of the script is one step, except the run that processes: it calls
\* procesar_retiros_streamlit, whose steps are the actions above, and ends by
\* storing the result.  pc = "reposo": no run of the script is under way.

TablasSesion == UNION { [1..n -> FilasMuestra] : n \in 0..MaxFilasSesion }

\* 401: procesamiento_completado and resultados_procesamiento (a dict that
\* always has the key 'exito' is truthy; None is not).
CompletadoMut(completado, resultados) == FALSE
Completado(completado, resultados) == completado /\ resultados.hay

\* The session opens: 375-380 set the three fields, no file is uploaded.
InitMain ==
    /\ OCA_CONFIG \in BOOLEAN
    /\ archivo = [columnas |-> ColumnasRequeridas, filas |-> <<>>]
    /\ pc = "reposo"
    /\ df = TablaVacia
    /\ grouped = <<>>
    /\ current_remito = 0
    /\ xml_data = Nada
    /\ response = Nada
    /\ nros_envio_total = <<>>
    /\ ordenes_retiro = <<>>
    /\ resultados_por_remito = <<>>
    /\ retorno = Nada
    /\ progreso = <<>>
    /\ consultas_cp = <<>>
    /\ envios_post = <<>>
    /\ procesamiento_completado = FALSE
    /\ resultados_procesamiento = Nada
    /\ archivo_procesado = Nada
    /\ archivo_subido = FALSE
    /\ evento = "ninguno"

locales == <<df, grouped, current_remito, xml_data, response, nros_envio_total,
             ordenes_retiro, resultados_por_remito, retorno, progreso,
             consultas_cp, envios_post>>

\* 383-398: without configuration every run stops at the error notice.
RerunSinConfiguracion ==
    /\ pc = "reposo"
    /\ ~OCA_CONFIG
    /\ evento' = "otro"
    /\ UNCHANGED <<OCA_CONFIG, archivo, pc, locales, procesamiento_completado,
                   resultados_procesamiento, archivo_procesado, archivo_subido>>

\* 408-434: the user puts a file in the uploader; the run shows its preview.
SubirArchivo ==
    /\ pc = "reposo"
    /\ OCA_CONFIG
    /\ ~Completado(procesamiento_completado, resultados_procesamiento)
    /\ archivo' \in [columnas : JuegosDeColumnas, filas : TablasSesion]
    /\ archivo_subido' = TRUE
    /\ evento' = "subir"
    /\ UNCHANGED <<OCA_CONFIG, pc, locales, procesamiento_completado,
                   resultados_procesamiento, archivo_procesado>>

\* 408-437: the user takes the file out of the uploader; in the run that
\* follows st.file_uploader returns None, so no preview and no button are
\* drawn.  The sheet read last stays where it was, out of reach.
QuitarArchivo ==
    /\ pc = "reposo"
    /\ OCA_CONFIG
    /\ ~Completado(procesamiento_completado, resultados_procesamiento)
    /\ archivo_subido
    /\ archivo_subido' = FALSE
    /\ evento' = "otro"
    /\ UNCHANGED <<OCA_CONFIG, archivo, pc, locales, procesamiento_completado,
                   resultados_procesamiento, archivo_procesado>>

\* 405-479 in a run triggered by anything but the actions above and the
\* button: the upload page is drawn again, the uploader as it was.
RerunSinClic ==
    /\ pc = "reposo"
    /\ OCA_CONFIG
    /\ ~Completado(procesamiento_completado, resultados_procesamiento)
    /\ evento' = "otro"
    /\ UNCHANGED <<OCA_CONFIG, archivo, pc, locales, procesamiento_completado,
                   resultados_procesamiento, archivo_procesado, archivo_subido>>

\* 437-442: the button 'Procesar Retiros' was clicked with a file uploaded;
\* procesar_retiros_streamlit is called.
ClicProcesar ==
    /\ pc = "reposo"
    /\ OCA_CONFIG
    /\ ~Completado(procesamiento_completado, resultados_procesamiento)
    /\ archivo_subido
    /\ evento' = "procesar"
    /\ pc' = "inicio"
    /\ UNCHANGED <<OCA_CONFIG, archivo, locales, procesamiento_completado,
                   resultados_procesamiento, archivo_procesado, archivo_subido>>

\* 444-450: procesar_retiros_streamlit has returned; the result is stored in
\* the session and shown.  The locals of the call are gone.
GuardarResultado ==
    /\ pc = "fin"
    /\ procesamiento_completado' = TRUE
    /\ resultados_procesamiento' = retorno
    /\ archivo_procesado' = Algun("archivo.xlsx")
    /\ pc' = "reposo"
    /\ df' = TablaVacia
    /\ grouped' = <<>>
    /\ current_remito' = 0
    /\ xml_data' = Nada
    /\ response' = Nada
    /\ nros_envio_total' = <<>>
    /\ ordenes_retiro' = <<>>
    /\ resultados_por_remito' = <<>>
    /\ retorno' = Nada
    /\ progreso' = <<>>
    /\ consultas_cp' = <<>>
    /\ envios_post' = <<>>
    /\ UNCHANGED <<OCA_CONFIG, archivo, archivo_subido, evento>>

\* The stored result offers label downloads: it is a success with a unit.
HayEtiquetas(resultado) ==
    /\ resultado.exito
    /\ \E r \in DOMAIN resultado.resultados_por_remito :
          resultado.resultados_por_remito[r].estado = "exito"

\* 400-403 with mostrar_resultados (481-571): a run with a completed result
\* stored only shows it, whether it was triggered by a label download button
\* (530-544) or by anything else but 'Procesar un Nuevo Archivo'.
MostrarGuardado ==
    /\ pc = "reposo"
    /\ OCA_CONFIG
    /\ Completado(procesamiento_completado, resultados_procesamiento)
    /\ \/ evento' = "otro"
       \/ HayEtiquetas(resultados_procesamiento.v) /\ evento' = "descarga"
    /\ UNCHANGED <<OCA_CONFIG, archivo, pc, locales, procesamiento_completado,
                   resultados_procesamiento, archivo_procesado, archivo_subido>>

\* 488-493: 'Procesar un Nuevo Archivo' resets the three fields and reruns
\* the script, which draws the upload page with no button clicked; the
\* uploader, not drawn while the result was shown, may or may not have kept
\* its file.
ClicNuevo ==
    /\ pc = "reposo"
    /\ OCA_CONFIG
    /\ Completado(procesamiento_completado, resultados_procesamiento)
    /\ evento' = "nuevo"
    /\ procesamiento_completado' = FALSE
    /\ resultados_procesamiento' = Nada
    /\ archivo_procesado' = Nada
    /\ archivo_subido' \in BOOLEAN
    /\ UNCHANGED <<OCA_CONFIG, archivo, pc, locales>>

NextMain ==
    \/ RerunSinConfiguracion
    \/ SubirArchivo
    \/ QuitarArchivo
    \/ RerunSinClic
    \/ ClicProcesar
    \/ ValidacionFalla
    \/ ValidacionPasa
    \/ ConstruirSobre
    \/ FalloAlConstruir
    \/ EnviarFalla
    \/ EnviarRecibe
    \/ InterpretarRespuesta
    \/ Fusionar
    \/ GuardarResultado
    \/ MostrarGuardado
    \/ ClicNuevo

SpecMain == InitMain /\ [][NextMain]_vars

\* ------------------------------------------------------------ properties
\* The run passed validation (it entered or left the batch loop).
Validado ==
    \/ pc \in {"bucle", "enviar", "interpretar"}
    \/ pc = "fin" /\ retorno.hay /\ "resultados_por_remito" \in DOMAIN retorno.v

\* The batch loop is over.
BucleTerminado ==
    \/ pc = "bucle" /\ current_remito >= Len(grouped)
    \/ pc = "fin" /\ Validado

\* The distinct unit ids of the normalised table.
Unidades == {df.filas[i].obs : i \in 1..Len(df.filas)}

\* Position of the first row of a unit in the table.
PrimeraPosicion(remito) ==
    SetMin({i \in 1..Len(df.filas) : df.filas[i].obs = remito})

Veces(s, x) == Cardinality({i \in 1..Len(s) : s[i] = x})

RegistroDeExito(r) ==
    /\ DOMAIN r = {"nros_envio", "orden_retiro", "tipo", "estado"}
    /\ r.estado = "exito"

RegistroDeError(r) ==
    /\ DOMAIN r = {"error", "estado"}
    /\ r.estado = "error"

Fallo(remito, clase) ==
    /\ remito \in DOMAIN resultados_por_remito
    /\ RegistroDeError(resultados_por_remito[remito])
    /\ resultados_por_remito[remito].error.clase = clase

Exitoso(remito) ==
    /\ remito \in DOMAIN resultados_por_remito
    /\ RegistroDeExito(resultados_por_remito[remito])

\* C1: once validation has passed, the loop visits the units one after the
\* other whatever their outcomes: the units started are always a prefix of the
\* processing order, each unit left behind has its outcome recorded, and when
\* the function returns every unit was visited and has an outcome.
C1_NingunaUnidadSeOmite ==
    Validado =>
        /\ current_remito <= Len(grouped)
        /\ Len(progreso) = current_remito
        /\ \A k \in 1..Len(progreso) : progreso[k].remito = grouped[k]
        /\ \A k \in 1..current_remito :
              (k < current_remito \/ pc = "bucle" \/ pc = "fin")
                  => grouped[k] \in DOMAIN resultados_por_remito
        /\ pc = "fin" =>
              /\ current_remito = Len(grouped)
              /\ {progreso[k].remito : k \in 1..Len(progreso)} = Unidades

\* Three units: the first fails in transport, the second is rejected by the
\* carrier, the third is still processed and succeeds.
C1_Testigo ==
    /\ pc = "fin" /\ Validado /\ Len(grouped) = 3
    /\ Fallo(grouped[1], "timeout")
    /\ Fallo(grouped[2], "Error de OCA para remito")
    /\ Exitoso(grouped[3])

\* C2: when the loop is over the keys of resultados_por_remito are exactly the
\* distinct unit ids of the table, and every entry is either a success record
\* or a failure record, never both and never neither.
C2_UnResultadoPorUnidad ==
    /\ Validado =>
          \A r \in DOMAIN resultados_por_remito :
              /\ r \in Unidades
              /\ RegistroDeExito(resultados_por_remito[r])
                    \/ RegistroDeError(resultados_por_remito[r])
              /\ ~(RegistroDeExito(resultados_por_remito[r])
                    /\ RegistroDeError(resultados_por_remito[r]))
    /\ BucleTerminado => DOMAIN resultados_por_remito = Unidades

C2_Testigo ==
    /\ BucleTerminado /\ Cardinality(Unidades) >= 2
    /\ \E a, b \in Unidades : Exitoso(a) /\ Fallo(b, "http")

\* C3 as stated: when the loop is over every unit was submitted exactly once.
C3_ExactamenteUnaLlamada ==
    BucleTerminado => \A r \in Unidades : Veces(envios_post, Str(r)) = 1

\* C3, amended: no unit is ever submitted twice; when the loop is over a unit
\* was submitted exactly once unless writing its envelope failed, and then not
\* at all; and while an envelope awaits its reply no later unit was started
\* and every earlier unit has its outcome.
C3_ALoSumoUnaLlamada ==
    Validado =>
        /\ \A r \in Unidades : Veces(envios_post, Str(r)) <= 1
        /\ BucleTerminado =>
              \A r \in Unidades :
                  Veces(envios_post, Str(r)) = (IF Fallo(r, "OSError") THEN 0 ELSE 1)
        /\ pc \in {"enviar", "interpretar"} =>
              /\ Len(progreso) = current_remito
              /\ \A k \in 1..(current_remito - 1) :
                    grouped[k] \in DOMAIN resultados_por_remito
              /\ Remito \notin DOMAIN resultados_por_remito
              /\ Veces(envios_post, Str(Remito)) = (IF pc = "enviar" THEN 0 ELSE 1)

C3_Testigo ==
    /\ pc = "fin" /\ Validado /\ Len(grouped) >= 2
    /\ Fallo(grouped[1], "timeout")
    /\ Veces(envios_post, Str(grouped[1])) = 1
    /\ Exitoso(grouped[2])

\* C4: interpreting a reply that holds an error description leaves the batch's
\* tracking-number and order-number lists as they were and records a failure
\* for the unit, whatever detail records the reply also holds.
C4_ErrorNoAporta ==
    [][(pc = "interpretar" /\ response.v.errores # <<>>) =>
          /\ nros_envio_total' = nros_envio_total
          /\ ordenes_retiro' = ordenes_retiro
          /\ RegistroDeError(resultados_por_remito'[Remito])]_vars

\* The reply of the current unit held an error description and a well-formed
\* detail record, and the unit's failure was recorded.
C4_Testigo ==
    /\ pc = "bucle" /\ current_remito >= 1 /\ response.hay
    /\ response.v.errores # <<>>
    /\ response.v.detalles # <<>>
    /\ Fallo(Remito, "Error de OCA para remito")
    /\ resultados_por_remito[Remito].error.remito = Algun(Str(Remito))
    /\ nros_envio_total # <<>>

\* C5: the returned exito is true exactly when a tracking number was
\* collected, which is exactly when some unit succeeded.
C5_ExitoSiiHayEnvios ==
    (pc = "fin" /\ Validado) =>
        /\ retorno.v.exito <=> (Len(retorno.v.nros_envio) > 0)
        /\ retorno.v.exito <=> (\E r \in Unidades : Exitoso(r))
        /\ retorno.v.nros_envio = nros_envio_total

C5_Testigo ==
    /\ pc = "fin" /\ Validado /\ retorno.v.exito
    /\ Len(retorno.v.nros_envio) = 1
    /\ \E a, b \in Unidades : Exitoso(a) /\ Fallo(b, "ParseError")

\* C6: in the returned table every row carries the outcome of its own unit:
\* first tracking number, order number and 'Procesado' for a success;
\* 'Error: <message>' and no tracking or order number for a failure.
C6_CadaFilaSuUnidad ==
    (pc = "fin" /\ Validado) =>
        \A i \in 1..Len(retorno.v.dataframe.filas) :
            LET f == retorno.v.dataframe.filas[i]
                r == resultados_por_remito[f.obs]
            IN  IF RegistroDeExito(r)
                THEN /\ f.NroEnvio = Algun(r.nros_envio[1])
                     /\ f.OrdenRetiro = Algun(r.orden_retiro)
                     /\ f.Estado = Algun(EstadoProcesado)
                ELSE /\ f.NroEnvio = Nada
                     /\ f.OrdenRetiro = Nada
                     /\ f.Estado = Algun(EstadoError(r.error))

C6_Testigo ==
    /\ pc = "fin" /\ Validado /\ Len(df.filas) = 3
    /\ \E a, b \in Unidades :
          /\ Exitoso(a) /\ Len(resultados_por_remito[a].nros_envio) = 2
          /\ Cardinality(Mascara(df.filas, a)) = 2
          /\ Fallo(b, "Error de OCA para remito")

\* The batch-fatal conditions, read off the upload and the configuration.
ErrorFatal ==
    \/ ~OCA_CONFIG
    \/ \E k \in 1..Len(ColumnasRequeridas) :
          \A j \in 1..Len(archivo.columnas) :
              archivo.columnas[j] # ColumnasRequeridas[k]
    \/ \E i \in 1..Len(archivo.filas) : ~ContieneComa(archivo.filas[i].Nombre)

\* C7: with a batch-fatal condition no unit is started, no postal lookup and
\* no submission is made, and what is returned is the bare top-level failure.
C7_FatalSinTrabajoRemoto ==
    ErrorFatal =>
        /\ pc \in {"inicio", "fin"}
        /\ envios_post = <<>>
        /\ consultas_cp = <<>>
        /\ progreso = <<>>
        /\ resultados_por_remito = <<>>
        /\ pc = "fin" =>
              /\ retorno.hay
              /\ DOMAIN retorno.v = {"exito", "error"}
              /\ retorno.v.exito = FALSE

\* A sheet with a valid row and a row whose name has no comma was refused.
C7_Testigo ==
    /\ pc = "fin" /\ OCA_CONFIG /\ archivo.columnas = ColumnasRequeridas
    /\ Len(archivo.filas) >= 2
    /\ ContieneComa(archivo.filas[1].Nombre)
    /\ \E i \in 1..Len(archivo.filas) : ~ContieneComa(archivo.filas[i].Nombre)
    /\ retorno.v.error.clase = "Nombre invalido en filas"

\* The unit a submitted envelope names.
UnidadDe(texto) == CHOOSE r \in Unidades : Str(r) = texto

\* C8 as stated: units are started and submitted in the order in which their
\* ids first appear in the table.
C8_OrdenDePrimeraAparicion ==
    Validado =>
        /\ \A i, j \in 1..Len(progreso) :
              i < j => PrimeraPosicion(progreso[i].remito)
                          < PrimeraPosicion(progreso[j].remito)
        /\ \A i, j \in 1..Len(envios_post) :
              i < j => PrimeraPosicion(UnidadDe(envios_post[i]))
                          < PrimeraPosicion(UnidadDe(envios_post[j]))

\* C8, amended: units are started and submitted in ascending numeric order of
\* their ids, wherever their rows stand in the table.
C8_OrdenAscendente ==
    Validado =>
        /\ \A i, j \in 1..Len(progreso) :
              i < j => progreso[i].remito < progreso[j].remito
        /\ \A i, j \in 1..Len(envios_post) :
              i < j => UnidadDe(envios_post[i]) < UnidadDe(envios_post[j])

\* The unit whose rows come first in the table has the larger id, and both
\* units were submitted.
C8_Testigo ==
    /\ pc = "fin" /\ Validado /\ Len(envios_post) >= 2
    /\ PrimeraPosicion(UnidadDe(envios_post[1]))
          > PrimeraPosicion(UnidadDe(envios_post[2]))

SonDigitos(s) == s # <<>> /\ \A i \in 1..Len(s) : EsDigito(s[i])
TieneDigito(s) == \E i \in 1..Len(s) : EsDigito(s[i])

\* C9: interpreting a reply stores only non-empty digit strings in a success
\* record, and a reply in which no detail record has a tracking field with a
\* digit, or whose first detail record's order field has no digit, gives the
\* unit a failure record.
C9_SoloNumerosConDigitos ==
    [][pc = "interpretar" =>
          LET r == resultados_por_remito'[Remito]
              d == response.v.detalles
          IN  /\ RegistroDeExito(r) =>
                    /\ \A i \in 1..Len(r.nros_envio) : SonDigitos(r.nros_envio[i])
                    /\ SonDigitos(r.orden_retiro)
              /\ (\/ \A i \in 1..Len(d) :
                        ~(d[i].NumeroEnvio.hay /\ TieneDigito(d[i].NumeroEnvio.v))
                  \/ d = <<>>
                  \/ ~(d[1].OrdenRetiro.hay /\ TieneDigito(d[1].OrdenRetiro.v)))
                 => RegistroDeError(r)]_vars

\* C10: the envelope built for a unit holds exactly one origen, one envio
\* named after the unit, one destinatario and one paquete; the origin address
\* is that of the unit's first row, destination and package are the fixed ones.
C10_UnSobrePorUnidad ==
    pc \in {"enviar", "interpretar"} =>
        LET x == xml_data.v
            f == df.filas[PrimeraPosicion(Remito)]
        IN  /\ Len(x.origenes) = 1
            /\ Len(x.origenes[1].envios) = 1
            /\ x.origenes[1].envios[1].nroremito = Str(Remito)
            /\ Len(x.origenes[1].envios[1].destinatarios) = 1
            /\ Len(x.origenes[1].envios[1].paquetes) = 1
            /\ x.origenes[1].attrs.calle = f.Direccion
            /\ x.origenes[1].attrs.nro = Str(f.Numero)
            /\ x.origenes[1].attrs.cp = Str(f.cp)
            /\ x.origenes[1].attrs.localidad = f.localidad
            /\ x.origenes[1].attrs.provincia = f.provincia
            /\ x.origenes[1].attrs.email = f.mail
            /\ x.origenes[1].envios[1].destinatarios[1].calle = "SEPTIEMBRE"
            /\ x.origenes[1].envios[1].destinatarios[1].cp = "1625"
            /\ x.origenes[1].envios[1].paquetes[1].cant = "1"

\* The envelope of a unit of two rows with different addresses.
C10_Testigo ==
    /\ pc = "enviar"
    /\ Cardinality(Mascara(df.filas, Remito)) = 2
    /\ \E i, j \in Mascara(df.filas, Remito) :
          df.filas[i].Direccion # df.filas[j].Direccion
    /\ Len(grouped) >= 2

\* The numeric columns of validar_estructura.
ColumnasNumericas == {"obs", "Numero", "cp", "cantidad"}

\* C11: after validar_estructura has accepted the table, every cell of obs,
\* Numero, cp and cantidad is a non-negative integer, whatever the sheet held
\* (text, nothing, a negative number, a fraction), and a cell that held text
\* or nothing is 0.
C11_NumerosNoNegativos ==
    Validado =>
        /\ Len(df.filas) = Len(archivo.filas)
        /\ \A i \in 1..Len(df.filas) :
              \A c \in ColumnasNumericas :
                  /\ df.filas[i][c] \in Nat
                  /\ archivo.filas[i][c].k # "num" => df.filas[i][c] = 0

\* The columns a table has beyond those of the sheet, in the order added.
ColumnasAgregadas(tabla) ==
    SubSeq(tabla.columnas, Len(archivo.columnas) + 1, Len(tabla.columnas))

\* The cells of a row that come from the sheet.
CeldasDeEntrada(f) ==
    [obs |-> f.obs, Nombre |-> f.Nombre, Direccion |-> f.Direccion,
     Numero |-> f.Numero, localidad |-> f.localidad, provincia |-> f.provincia,
     cp |-> f.cp, mail |-> f.mail, cantidad |-> f.cantidad]

\* C12: for every batch that passes validation and has a unit, whatever the
\* outcomes of its units, the returned table is the input table followed by exactly the three columns 'Nro Envio', 'Orden
\* Retiro' and 'Estado': same original columns, same rows in the same order.
C12_TresColumnasAgregadas ==
    (pc = "fin" /\ Validado /\ Len(grouped) >= 1) =>
        LET salida == retorno.v.dataframe
            entrada == Coercionar(Normalizar(archivo.filas))
        IN  /\ SubSeq(salida.columnas, 1, Len(archivo.columnas)) = archivo.columnas
            /\ Len(ColumnasAgregadas(salida)) = 3
            /\ Rango(ColumnasAgregadas(salida))
                  = {"Nro Envio", "Orden Retiro", "Estado"}
            /\ Len(salida.filas) = Len(entrada)
            /\ \A i \in 1..Len(entrada) :
                  CeldasDeEntrada(salida.filas[i]) = entrada[i]

\* C13: across the runs of main(), procesar_retiros_streamlit is entered only
\* by a click on 'Procesar Retiros' with a file uploaded and no completed run
\* stored; when it returns, the session holds procesamiento_completado = True
\* and the result; while a completed run is stored every run only shows it,
\* keeps the three session fields and submits nothing, unless it is the click
\* on 'Procesar un Nuevo Archivo', which resets the three fields.
C13_SoloElClicProcesa ==
    [][/\ (pc = "reposo" /\ pc' # "reposo") =>
              /\ pc' = "inicio"
              /\ evento' = "procesar"
              /\ archivo_subido
              /\ ~procesamiento_completado
       /\ (pc = "fin" /\ pc' = "reposo") =>
              /\ retorno.hay
              /\ procesamiento_completado'
              /\ resultados_procesamiento' = retorno
              /\ archivo_procesado'.hay
       /\ envios_post' # envios_post =>
              \/ evento = "procesar" /\ ~procesamiento_completado
              \/ envios_post' = <<>>
       /\ procesamiento_completado =>
              /\ pc = "reposo" /\ pc' = "reposo"
              /\ envios_post' = envios_post
              /\ consultas_cp' = consultas_cp
              /\ IF evento' = "nuevo"
                 THEN /\ ~procesamiento_completado'
                      /\ resultados_procesamiento' = Nada
                      /\ archivo_procesado' = Nada
                 ELSE /\ procesamiento_completado'
                      /\ resultados_procesamiento' = resultados_procesamiento
                      /\ archivo_procesado' = archivo_procesado]_vars

\* A run triggered by a label download button while the result of a batch
\* with a submitted, successful unit is stored.
C13_Testigo ==
    /\ pc = "reposo"
    /\ procesamiento_completado
    /\ evento = "descarga"
    /\ resultados_procesamiento.v.exito
    /\ Len(resultados_procesamiento.v.ordenes_retiro) >= 1
    /\ envios_post = <<>>

====
